---- MODULE Spec2Model ----
(***************************************************************************)
(* The healthcheck timer of conmon (src/healthcheck.c): one timer, the     *)
(* thread that calls healthcheck_timer_start / healthcheck_timer_stop on   *)
(* it (the control thread) and the timer's worker thread                   *)
(* (healthcheck_timer_thread).  The timer's fields are plain, unlocked C   *)
(* fields shared by the two threads, so every access to `status` and       *)
(* `timer_active` is a step of its own and the two threads interleave      *)
(* freely.  Spec is that timer; FairSpec is the same timer under fair      *)
(* scheduling of its threads; RegistrySpec is the registry                 *)
(* (active_healthcheck_timers) with the lifecycle of several timers;       *)
(* PipeSpec is the timer with a sync pipe that may break and is shared     *)
(* with other timers; DiscoverySpec, ProbeSpec and ReportSpec apply the    *)
(* annotation parser, the probe runner and the status sender to their      *)
(* inputs.                                                                 *)
(***************************************************************************)
EXTENDS Integers, Sequences, FiniteSets, TLC

\* ------------------------------------------------------------------ bounds
\* Ticks the timer's workers may begin over the life of the timer.
MaxTicks == 3
\* Threads the control thread may create over the life of the timer.
MaxStarts == 2
\* Timers the monitor may create over the life of the process.
MaxTimers == 2
\* Status updates other timers' workers may write to the sync pipe.
MaxOtherUpdates == 1

\* ------------------------------------------------- healthcheck_status_t
HEALTHCHECK_NONE == "none"
HEALTHCHECK_STARTING == "starting"
HEALTHCHECK_HEALTHY == "healthy"
HEALTHCHECK_UNHEALTHY == "unhealthy"

healthcheck_status_t ==
    {HEALTHCHECK_NONE, HEALTHCHECK_STARTING, HEALTHCHECK_HEALTHY, HEALTHCHECK_UNHEALTHY}

\* healthcheck_status_to_string: the enum value's wire string.
healthcheck_status_to_string(s) ==
    CASE s = HEALTHCHECK_NONE -> "none"
      [] s = HEALTHCHECK_STARTING -> "starting"
      [] s = HEALTHCHECK_HEALTHY -> "healthy"
      [] s = HEALTHCHECK_UNHEALTHY -> "unhealthy"
      [] OTHER -> "unknown"

\* ------------------------------------------------- healthcheck_config_t
\* test is the probe command: NULL when the argv is absent, "true" (always
\* exits 0), "false" (always exits 1), or "any", a command that may end in
\* any way.  The numeric fields are those a parsed annotation can carry
\* (interval >= 1).
NULL == "NULL"
Tests == {NULL, "true", "false", "any"}
Intervals == {1, 2}
StartPeriods == {0, 3, 4}
RetriesValues == {0, 1, 2}

healthcheck_config_t ==
    [enabled : BOOLEAN, test : Tests, interval : Intervals,
     start_period : StartPeriods, retries : RetriesValues]

Config(t, i, sp, r) ==
    [enabled |-> TRUE, test |-> t, interval |-> i, start_period |-> sp, retries |-> r]

\* Configs the timer is created with: the end-to-end scenarios' configs, a
\* free probe with and without a start period and with retries 0, 1 and 2,
\* a start period that is not a multiple of the interval, and for the
\* rejected starts a disabled config and one without a test argv.
Configs ==
    {Config("false", 1, 0, 2), Config("true", 2, 4, 1), Config("false", 2, 4, 1),
     Config("any", 1, 0, 0), Config("any", 1, 0, 2), Config("any", 2, 4, 1),
     Config("true", 2, 3, 1),
     Config(NULL, 1, 0, 0),
     [enabled |-> FALSE, test |-> "true", interval |-> 1, start_period |-> 0,
      retries |-> 0]}

\* ------------------------------------------- healthcheck_execute_command
\* What the operating system does with one probe: fork, waitpid, and how the
\* child terminated.
Exited(c) == [fork_ok |-> TRUE, wait_ok |-> TRUE, term |-> "exited", code |-> c]

ProbeRuns(test) ==
    CASE test = "true" -> {Exited(0)}
      [] test = "false" -> {Exited(1)}
      [] OTHER ->
            {Exited(0), Exited(1),
             [fork_ok |-> FALSE, wait_ok |-> TRUE, term |-> "exited", code |-> 0],
             [fork_ok |-> TRUE, wait_ok |-> FALSE, term |-> "exited", code |-> 0],
             [fork_ok |-> TRUE, wait_ok |-> TRUE, term |-> "other", code |-> 0]}

\* Mutant of healthcheck_execute_command: a child killed by a signal is
\* reported with the bare signal number.
healthcheck_execute_command_bare_signal(run) ==
    IF ~run.fork_ok THEN [success |-> FALSE, exit_code |-> -1]
    ELSE IF ~run.wait_ok THEN [success |-> FALSE, exit_code |-> -1]
    ELSE IF run.term = "exited" THEN [success |-> TRUE, exit_code |-> run.code]
    ELSE IF run.term = "signaled" THEN [success |-> TRUE, exit_code |-> run.code]
    ELSE [success |-> FALSE, exit_code |-> -1]

\* healthcheck_execute_command's (return value, *exit_code) for a config
\* whose test argv is present.
healthcheck_execute_command(run) ==
    IF ~run.fork_ok THEN [success |-> FALSE, exit_code |-> -1]
    ELSE IF ~run.wait_ok THEN [success |-> FALSE, exit_code |-> -1]
    ELSE IF run.term = "exited" THEN [success |-> TRUE, exit_code |-> run.code]
    ELSE IF run.term = "signaled" THEN [success |-> TRUE, exit_code |-> 128 + run.code]
    ELSE [success |-> FALSE, exit_code |-> -1]

\* ------------------------------------------------------------------ state
VARIABLES
    config,                  \* timer->config
    status,                  \* timer->status
    consecutive_failures,    \* timer->consecutive_failures
    start_period_remaining,  \* timer->start_period_remaining
    timer_active,            \* timer->timer_active
    last_check_time,         \* timer->last_check_time
    cpc,                     \* control thread: where it is in start / stop
    ret,                     \* what the last healthcheck_timer_start returned
    wpc,                     \* worker thread: where it is in healthcheck_timer_thread
    sleep_time,              \* worker local sleep_time
    success,                 \* worker local success
    exit_code,               \* worker local exit_code
    emitted,                 \* status updates written to the sync pipe, in order
    now,                     \* seconds slept so far (time(NULL))
    starts,                  \* threads created so far
    ticks,                   \* ticks the timer's workers have begun
    startRaced               \* some start returned after its worker had run

\* The registry (active_healthcheck_timers) and the timers it holds, for the
\* lifecycle of several timers: creation, insertion, start, stop, free and
\* healthcheck_cleanup.
VARIABLES
    active_healthcheck_timers,  \* the global: no table, or the hash table
    heap,                       \* every timer object: its memory and lifecycle fields
    rpc,                        \* control thread: where it is in a registry or timer call
    result                      \* the last call that returned, and what it returned

registry == <<active_healthcheck_timers, heap, rpc, result>>

\* Discovery: the last call of healthcheck_discover_from_oci_config or
\* healthcheck_parse_oci_annotations and the caller's config it filled in.
VARIABLES
    call,       \* the call's arguments, and what the allocator and the heap did
    parsed,     \* the caller's healthcheck_config_t (*config)
    returned    \* what the call returned

discovery == <<call, parsed, returned>>

\* The last healthcheck_execute_command call: its arguments, what the child
\* executed, how the child ended, and the call's (return value, *exit_code).
VARIABLE probe

\* The last healthcheck_send_status_update call: its arguments, the message
\* handed to the sync pipe and the return value.
VARIABLE wire

\* The sync pipe to the parent: whether writes to it fail, and the status
\* updates whose write failed, in order.
VARIABLES
    sync_pipe_fails,
    dropped

pipe == <<sync_pipe_fails, dropped>>

timer == <<status, consecutive_failures, start_period_remaining, timer_active,
           last_check_time>>
worker == <<wpc, sleep_time, success, exit_code, ticks>>
control == <<cpc, ret, starts, startRaced>>
vars == <<config, timer, worker, control, emitted, now, pipe>>

\* ------------------------------------------------------------ hash table
\* Container ids, as strings of character codes: "a", "q" (which falls into
\* the bucket of "a" in a table of 16 buckets) and "b".
ContainerIds == {<<97>>, <<113>>, <<98>>}

\* Timer objects are named 1..MaxTimers; 0 is the NULL timer pointer.
Timers == 1..MaxTimers
NoTimer == 0
\* active_healthcheck_timers is NULL, or points to a struct hash_table.
NoTable == <<>>
\* healthcheck_init: hash_table_new(16).
HashTableSize == 16

\* hash_string: hash = ((hash << 5) + hash) + c over the characters, from
\* 5381, in unsigned 32-bit arithmetic.  The 32-bit value is kept as its two
\* 16-bit halves <<high, low>>.
RECURSIVE hash_from(_, _)
hash_from(hash, str) ==
    IF str = <<>> THEN hash
    ELSE LET low == hash[2] * 32 + hash[2] + Head(str)
             high == hash[1] * 32 + hash[1] + (low \div 65536)
         IN hash_from(<<high % 65536, low % 65536>>, Tail(str))

hash_string(str) == hash_from(<<0, 5381>>, str)

\* hash_string(key) % ht->size.
BucketOf(key, size) ==
    LET hash == hash_string(key)
    IN ((hash[1] % size) * (65536 % size) + hash[2]) % size

\* hash_table_new: size empty buckets, count 0.  A bucket is the chain of
\* its entries, the head of the chain first.
hash_table_new(size) ==
    <<[buckets |-> [b \in 0..(size - 1) |-> <<>>], size |-> size, count |-> 0]>>

\* The walk along a chain (lines 102-107 and 121-127): the position of the
\* first entry with the key, 0 when there is none.
ChainFind(chain, key) ==
    IF \E k \in 1..Len(chain) : chain[k].key = key
    THEN CHOOSE k \in 1..Len(chain) :
            /\ chain[k].key = key
            /\ \A l \in 1..(k - 1) : chain[l].key # key
    ELSE 0

\* Mutant of hash_table_get: the head of the key's bucket is returned without
\* comparing its key.
hash_table_get_head(ht, key) ==
    IF ht = NoTable THEN NoTimer
    ELSE LET chain == ht[1].buckets[BucketOf(key, ht[1].size)]
         IN IF chain = <<>> THEN NoTimer ELSE chain[1].value

\* hash_table_get: the value stored under the key, NULL when the table is
\* NULL or holds no entry with the key.
hash_table_get(ht, key) ==
    IF ht = NoTable THEN NoTimer
    ELSE LET chain == ht[1].buckets[BucketOf(key, ht[1].size)]
             k == ChainFind(chain, key)
         IN IF k = 0 THEN NoTimer ELSE chain[k].value

\* Mutant of hash_table_put: an entry with the key is left as it is and the
\* call returns false.
hash_table_put_unique(ht, key, value, mem_ok) ==
    IF ht = NoTable THEN [ok |-> FALSE, ht |-> ht]
    ELSE LET hash == BucketOf(key, ht[1].size)
             chain == ht[1].buckets[hash]
             k == ChainFind(chain, key)
         IN IF k # 0 THEN [ok |-> FALSE, ht |-> ht]
            ELSE IF ~mem_ok THEN [ok |-> FALSE, ht |-> ht]
            ELSE [ok |-> TRUE,
                  ht |-> <<[ht[1] EXCEPT
                              !.buckets[hash] = <<[key |-> key, value |-> value]>> \o chain,
                              !.count = @ + 1]>>]

\* hash_table_put: (return value, the table afterwards).  An entry with the
\* key has its value replaced; otherwise a new entry is put at the head of
\* the bucket's chain, unless malloc or strdup fails (mem_ok false).
hash_table_put(ht, key, value, mem_ok) ==
    IF ht = NoTable THEN [ok |-> FALSE, ht |-> ht]
    ELSE LET hash == BucketOf(key, ht[1].size)
             chain == ht[1].buckets[hash]
             k == ChainFind(chain, key)
         IN IF k # 0
            THEN [ok |-> TRUE,
                  ht |-> <<[ht[1] EXCEPT !.buckets[hash][k].value = value]>>]
            ELSE IF ~mem_ok THEN [ok |-> FALSE, ht |-> ht]
            ELSE [ok |-> TRUE,
                  ht |-> <<[ht[1] EXCEPT
                              !.buckets[hash] = <<[key |-> key, value |-> value]>> \o chain,
                              !.count = @ + 1]>>]

\* A timer object not yet allocated, the control thread outside every call,
\* and no call returned yet.
Unallocated ==
    [mem |-> "unallocated", container_id |-> <<>>, timer_active |-> FALSE,
     thread |-> "none"]

ControlIdle == [pc |-> "idle", t |-> NoTimer, i |-> 0, j |-> 0, via |-> "none"]

NoResult == [op |-> "none", ok |-> TRUE, key |-> <<>>, value |-> NoTimer]

\* Before healthcheck_init: the global is NULL (line 149) and no timer exists.
RegistryAtRest ==
    /\ active_healthcheck_timers = NoTable
    /\ heap = [t \in Timers |-> Unallocated]
    /\ rpc = ControlIdle
    /\ result = NoResult

\* config->test: the NULL pointer, a live argv array, an array that was
\* freed while config->test still points to it, or an array whose terminating
\* NULL was written outside its allocation onto the heap behind it.
NullTest == [mem |-> "null", argv |-> <<>>]

\* A healthcheck_config_t the caller has zeroed, before any call fills it in.
ZeroConfig ==
    [enabled |-> FALSE, test |-> NullTest, interval |-> 0, timeout |-> 0,
     start_period |-> 0, retries |-> 0]

\* No discovery call, no probe and no status update yet; the sync pipe is
\* writable.
OffStageAtRest ==
    /\ call = [op |-> "none"]
    /\ parsed = ZeroConfig
    /\ returned = [op |-> "none", ok |-> FALSE]
    /\ probe = [op |-> "none"]
    /\ wire = [op |-> "none"]
    /\ sync_pipe_fails = FALSE
    /\ dropped = <<>>

\* healthcheck_timer_new: the state of a timer just created from a config.
Init ==
    /\ config \in Configs
    /\ status = HEALTHCHECK_NONE
    /\ consecutive_failures = 0
    /\ start_period_remaining = config.start_period
    /\ timer_active = FALSE
    /\ last_check_time = 0
    /\ cpc = "idle"
    /\ ret = "none"
    /\ wpc = "none"
    /\ sleep_time = 0
    /\ success = FALSE
    /\ exit_code = 0
    /\ emitted = <<>>
    /\ now = 0
    /\ starts = 0
    /\ ticks = 0
    /\ startRaced = FALSE
    /\ RegistryAtRest
    /\ OffStageAtRest

\* write_or_close_sync_fd(&sync_pipe_fd, HEALTHCHECK_MSG_STATUS_UPDATE, msg):
\* the message is written to the sync pipe, or the write fails and the
\* message is lost.  The function returns nothing to its caller.
write_or_close_sync_fd(msg) ==
    /\ IF sync_pipe_fails
       THEN /\ dropped' = Append(dropped, msg)
            /\ UNCHANGED emitted
       ELSE /\ emitted' = Append(emitted, msg)
            /\ UNCHANGED dropped
    /\ UNCHANGED sync_pipe_fails

\* Mutant of healthcheck_send_status_update: the update is put in front of
\* those written before.
healthcheck_send_status_update_in_front(st, code) ==
    /\ emitted' = <<[status |-> healthcheck_status_to_string(st), exit_code |-> code,
                     tick |-> ticks]>> \o emitted
    /\ UNCHANGED pipe

\* healthcheck_send_status_update: one message on the sync pipe.  The tick
\* is the number of the worker's tick that sent it.
healthcheck_send_status_update(st, code) ==
    write_or_close_sync_fd(
        [status |-> healthcheck_status_to_string(st), exit_code |-> code, tick |-> ticks])

\* ------------------------------------------- healthcheck_timer_start
\* Mutant of StartCall: the timer_active test is missing.
StartCallWhileActive ==
    /\ cpc = "idle"
    /\ IF ~config.enabled \/ config.test = NULL
       THEN /\ ret' = "start_false"
            /\ UNCHANGED <<cpc, starts, startRaced>>
       ELSE /\ starts < MaxStarts
            /\ cpc' = "start_create"
            /\ UNCHANGED <<ret, starts, startRaced>>
    /\ UNCHANGED <<config, timer, worker, emitted, now>>
    /\ UNCHANGED <<registry, discovery, probe, wire, pipe>>

\* Lines 297-303: the two early returns.  A start that goes on creates a
\* thread, which the model allows MaxStarts times.
StartCall ==
    /\ cpc = "idle"
    /\ IF timer_active \/ ~config.enabled \/ config.test = NULL
       THEN /\ ret' = "start_false"
            /\ UNCHANGED <<cpc, starts, startRaced>>
       ELSE /\ starts < MaxStarts
            /\ cpc' = "start_create"
            /\ UNCHANGED <<ret, starts, startRaced>>
    /\ UNCHANGED <<config, timer, worker, emitted, now>>
    /\ UNCHANGED <<registry, discovery, probe, wire, pipe>>

\* Lines 305-309: pthread_create fails and start returns false, or the
\* worker exists from here on (and may run before start goes on).
StartCreate ==
    /\ cpc = "start_create"
    /\ \/ /\ cpc' = "idle"
          /\ ret' = "start_false"
          /\ UNCHANGED <<starts, startRaced, worker>>
       \/ /\ cpc' = "start_active"
          /\ starts' = starts + 1
          /\ wpc' = "spawned"
          /\ sleep_time' = 0
          /\ success' = FALSE
          /\ exit_code' = 0
          /\ UNCHANGED ticks
          /\ UNCHANGED <<ret, startRaced>>
    /\ UNCHANGED <<config, timer, emitted, now>>
    /\ UNCHANGED <<registry, discovery, probe, wire, pipe>>

\* Line 311.
StartSetActive ==
    /\ cpc = "start_active"
    /\ timer_active' = TRUE
    /\ cpc' = "start_status"
    /\ UNCHANGED <<config, status, consecutive_failures, start_period_remaining,
                   last_check_time, ret, starts, startRaced, worker, emitted, now>>
    /\ UNCHANGED <<registry, discovery, probe, wire, pipe>>

\* Mutant of StartSetStatus: start brings the counters back to the values of
\* a new timer.
StartSetStatusResets ==
    /\ cpc = "start_status"
    /\ status' = HEALTHCHECK_STARTING
    /\ consecutive_failures' = 0
    /\ start_period_remaining' = config.start_period
    /\ cpc' = "start_time"
    /\ UNCHANGED <<config, timer_active, last_check_time, ret, starts, startRaced,
                   worker, emitted, now>>
    /\ UNCHANGED <<registry, discovery, probe, wire, pipe>>

\* Line 312.
StartSetStatus ==
    /\ cpc = "start_status"
    /\ status' = HEALTHCHECK_STARTING
    /\ cpc' = "start_time"
    /\ UNCHANGED <<config, consecutive_failures, start_period_remaining, timer_active,
                   last_check_time, ret, starts, startRaced, worker, emitted, now>>
    /\ UNCHANGED <<registry, discovery, probe, wire, pipe>>

\* Lines 313-314.
StartReturn ==
    /\ cpc = "start_time"
    /\ last_check_time' = now
    /\ ret' = "start_true"
    /\ startRaced' = (startRaced \/ wpc # "spawned")
    /\ cpc' = "idle"
    /\ UNCHANGED <<config, status, consecutive_failures, start_period_remaining,
                   timer_active, starts, worker, emitted, now>>
    /\ UNCHANGED <<registry, discovery, probe, wire, pipe>>

\* -------------------------------------------- healthcheck_timer_stop
\* Mutant of StopCall: the timer_active test is missing.
StopCallAlways ==
    /\ cpc = "idle"
    /\ timer_active' = FALSE
    /\ cpc' = "stop_status"
    /\ UNCHANGED <<config, status, consecutive_failures, start_period_remaining,
                   last_check_time, ret, starts, startRaced, worker, emitted, now>>
    /\ UNCHANGED <<registry, discovery, probe, wire, pipe>>

\* Lines 320-324.
StopCall ==
    /\ cpc = "idle"
    /\ IF ~timer_active
       THEN UNCHANGED <<cpc, timer_active>>
       ELSE /\ timer_active' = FALSE
            /\ cpc' = "stop_status"
    /\ UNCHANGED <<config, status, consecutive_failures, start_period_remaining,
                   last_check_time, ret, starts, startRaced, worker, emitted, now>>
    /\ UNCHANGED <<registry, discovery, probe, wire, pipe>>

\* Line 325.
StopSetStatus ==
    /\ cpc = "stop_status"
    /\ status' = HEALTHCHECK_NONE
    /\ cpc' = "stop_join"
    /\ UNCHANGED <<config, consecutive_failures, start_period_remaining, timer_active,
                   last_check_time, ret, starts, startRaced, worker, emitted, now>>
    /\ UNCHANGED <<registry, discovery, probe, wire, pipe>>

\* Mutant of StopJoin: stop returns without waiting for the worker.
StopJoinDetached ==
    /\ cpc = "stop_join"
    /\ cpc' = "idle"
    /\ UNCHANGED <<config, timer, worker, ret, starts, startRaced, emitted, now>>
    /\ UNCHANGED <<registry, discovery, probe, wire, pipe>>

\* Lines 328-333: pthread_join returns once the worker has returned.
StopJoin ==
    /\ cpc = "stop_join"
    /\ wpc = "exited"
    /\ wpc' = "joined"
    /\ cpc' = "idle"
    /\ UNCHANGED <<config, timer, sleep_time, success, exit_code, ticks,
                   ret, starts, startRaced, emitted, now>>
    /\ UNCHANGED <<registry, discovery, probe, wire, pipe>>

\* ------------------------------------------- healthcheck_timer_thread
\* Mutant of InStartPeriod: a remaining period of 0 still counts as inside.
InStartPeriodOrAtItsEnd(remaining) == remaining >= 0

\* Lines 774, 776 and 818: start_period_remaining > 0.
InStartPeriod(remaining) == remaining > 0

\* Mutant of RetryLimitReached: the limit must be exceeded, not reached.
RetryLimitExceeded(failures, retries) == failures > retries

\* Line 825: consecutive_failures >= config.retries.
RetryLimitReached(failures, retries) == failures >= retries

\* Lines 756-758: the loop condition, read when the thread first runs and
\* after every tick; the thread returns when the timer is not active.
WorkerLoop ==
    /\ wpc \in {"spawned", "loop"}
    /\ IF timer_active
       THEN /\ sleep_time' = config.interval
            /\ wpc' = "sleep"
       ELSE /\ wpc' = "exited"
            /\ UNCHANGED sleep_time
    /\ UNCHANGED <<config, timer, success, exit_code, ticks, control, emitted, now>>
    /\ UNCHANGED <<registry, discovery, probe, wire, pipe>>

\* Lines 759-767: one slice of the interruptible sleep, or the end of it.
WorkerSleep ==
    /\ wpc = "sleep"
    /\ IF sleep_time > 0 /\ timer_active
       THEN /\ ticks < MaxTicks
            /\ now' = now + 1
            /\ sleep_time' = IF sleep_time > 1 THEN sleep_time - 1 ELSE 0
            /\ UNCHANGED wpc
       ELSE /\ wpc' = "check"
            /\ UNCHANGED <<sleep_time, now>>
    /\ UNCHANGED <<config, timer, success, exit_code, ticks, control, emitted>>
    /\ UNCHANGED <<registry, discovery, probe, wire, pipe>>

\* Mutant of WorkerCheck: the tick begins whether or not the timer is active.
WorkerCheckNoBreak ==
    /\ wpc = "check"
    /\ ticks < MaxTicks
    /\ wpc' = "grace"
    /\ ticks' = ticks + 1
    /\ UNCHANGED <<config, timer, sleep_time, success, exit_code, control,
                   emitted, now>>
    /\ UNCHANGED <<registry, discovery, probe, wire, pipe>>

\* Lines 769-771: the tick begins unless the timer was stopped meanwhile.
WorkerCheck ==
    /\ wpc = "check"
    /\ IF ~timer_active
       THEN /\ wpc' = "exited"
            /\ UNCHANGED ticks
       ELSE /\ wpc' = "grace"
            /\ ticks' = ticks + 1
    /\ UNCHANGED <<config, timer, sleep_time, success, exit_code, control,
                   emitted, now>>
    /\ UNCHANGED <<registry, discovery, probe, wire, pipe>>

\* Lines 774-776 and 784-789: the start period is counted down by the
\* interval; a tick still inside it does not probe.
WorkerGrace ==
    /\ wpc = "grace"
    /\ IF InStartPeriod(start_period_remaining)
       THEN /\ start_period_remaining' = start_period_remaining - config.interval
            /\ wpc' = IF InStartPeriod(start_period_remaining') THEN "grace_status"
                      ELSE "probe"
       ELSE /\ wpc' = "probe"
            /\ UNCHANGED start_period_remaining
    /\ UNCHANGED <<config, status, consecutive_failures, timer_active, last_check_time,
                   sleep_time, success, exit_code, ticks, control, emitted, now>>
    /\ UNCHANGED <<registry, discovery, probe, wire, pipe>>

\* Mutant of WorkerGraceStatus: every tick inside the start period sends.
WorkerGraceStatusAlways ==
    /\ wpc = "grace_status"
    /\ status' = HEALTHCHECK_STARTING
    /\ wpc' = "grace_send"
    /\ UNCHANGED <<config, consecutive_failures, start_period_remaining, timer_active,
                   last_check_time, sleep_time, success, exit_code, ticks,
                   control, emitted, now>>
    /\ UNCHANGED <<registry, discovery, probe, wire, pipe>>

\* Lines 778-779: status is set to starting when it is not starting already.
WorkerGraceStatus ==
    /\ wpc = "grace_status"
    /\ IF status # HEALTHCHECK_STARTING
       THEN /\ status' = HEALTHCHECK_STARTING
            /\ wpc' = "grace_send"
       ELSE /\ wpc' = "loop"
            /\ UNCHANGED status
    /\ UNCHANGED <<config, consecutive_failures, start_period_remaining, timer_active,
                   last_check_time, sleep_time, success, exit_code, ticks,
                   control, emitted, now>>
    /\ UNCHANGED <<registry, discovery, probe, wire, pipe>>

\* Mutant of WorkerGraceSend: the tick goes on to the probe after its update.
WorkerGraceSendFallsThrough ==
    /\ wpc = "grace_send"
    /\ healthcheck_send_status_update(status, 0)
    /\ wpc' = "probe"
    /\ UNCHANGED <<config, timer, sleep_time, success, exit_code, ticks,
                   control, now>>
    /\ UNCHANGED <<registry, discovery, probe, wire>>

\* Lines 780-784: the update carries timer->status as read when it is sent.
WorkerGraceSend ==
    /\ wpc = "grace_send"
    /\ healthcheck_send_status_update(status, 0)
    /\ wpc' = "loop"
    /\ UNCHANGED <<config, timer, sleep_time, success, exit_code, ticks,
                   control, now>>
    /\ UNCHANGED <<registry, discovery, probe, wire>>

\* Lines 792-793: the probe runs (the test argv of a started timer is present).
WorkerProbe ==
    /\ wpc = "probe"
    /\ \E run \in ProbeRuns(config.test) :
          LET r == healthcheck_execute_command(run)
          IN /\ success' = r.success
             /\ exit_code' = r.exit_code
    /\ wpc' = "result"
    /\ UNCHANGED <<config, timer, sleep_time, ticks, control, emitted, now>>
    /\ UNCHANGED <<registry, discovery, probe, wire, pipe>>

\* Mutant of ResultNotOk: a runner failure is held to the retry limit.
ResultNotOkCounted ==
    /\ ~success
    /\ consecutive_failures' = consecutive_failures + 1
    /\ status' = IF consecutive_failures' >= config.retries THEN HEALTHCHECK_UNHEALTHY
                 ELSE status
    /\ wpc' = "send"

\* Lines 795-798: the runner returned not ok.
ResultNotOk ==
    /\ ~success
    /\ consecutive_failures' = consecutive_failures + 1
    /\ status' = HEALTHCHECK_UNHEALTHY
    /\ wpc' = "send"

\* Lines 804-810: the probe exited 0.
ResultPassed ==
    /\ success /\ exit_code = 0
    /\ consecutive_failures' = 0
    /\ status' = HEALTHCHECK_HEALTHY
    /\ wpc' = "send"

\* Lines 813-834: the probe exited non-zero.
ResultFailed ==
    /\ success /\ exit_code # 0
    /\ consecutive_failures' = consecutive_failures + 1
    /\ IF InStartPeriod(start_period_remaining)
       THEN /\ wpc' = "send"
            /\ UNCHANGED status
       ELSE IF RetryLimitReached(consecutive_failures', config.retries)
            THEN /\ status' = HEALTHCHECK_UNHEALTHY
                 /\ wpc' = "send"
            ELSE /\ wpc' = "time"
                 /\ UNCHANGED status

\* Lines 795-834 up to the status update: the counter and the status.
WorkerResult ==
    /\ wpc = "result"
    /\ \/ ResultNotOk
       \/ ResultPassed
       \/ ResultFailed
    /\ UNCHANGED <<config, start_period_remaining, timer_active, last_check_time,
                   sleep_time, success, exit_code, ticks, control, emitted, now>>
    /\ UNCHANGED <<registry, discovery, probe, wire, pipe>>

\* Mutant of WorkerSend: the worker returns when the write of its update
\* fails.
WorkerSendGivesUp ==
    /\ wpc = "send"
    /\ healthcheck_send_status_update(status, exit_code)
    /\ IF sync_pipe_fails
       THEN /\ wpc' = "exited"
            /\ UNCHANGED <<success, exit_code>>
       ELSE IF success
       THEN /\ wpc' = "time"
            /\ UNCHANGED <<success, exit_code>>
       ELSE /\ wpc' = "loop"
            /\ success' = FALSE
            /\ exit_code' = 0
    /\ UNCHANGED <<config, timer, sleep_time, ticks, control, now>>
    /\ UNCHANGED <<registry, discovery, probe, wire>>

\* Lines 799-800, 812, 822 and 829: the update carries timer->status as read
\* when it is sent; after a runner failure the tick ends here (continue) and
\* the tick's locals go out of scope.
WorkerSend ==
    /\ wpc = "send"
    /\ healthcheck_send_status_update(status, exit_code)
    /\ IF success
       THEN /\ wpc' = "time"
            /\ UNCHANGED <<success, exit_code>>
       ELSE /\ wpc' = "loop"
            /\ success' = FALSE
            /\ exit_code' = 0
    /\ UNCHANGED <<config, timer, sleep_time, ticks, control, now>>
    /\ UNCHANGED <<registry, discovery, probe, wire>>

\* Lines 837-838: the end of the tick; its locals go out of scope.
WorkerTime ==
    /\ wpc = "time"
    /\ last_check_time' = now
    /\ wpc' = "loop"
    /\ success' = FALSE
    /\ exit_code' = 0
    /\ UNCHANGED <<config, status, consecutive_failures, start_period_remaining,
                   timer_active, sleep_time, ticks, control, emitted, now>>
    /\ UNCHANGED <<registry, discovery, probe, wire, pipe>>

\* ------------------------------------------------------- specification
Control ==
    \/ StartCall
    \/ StartCreate
    \/ StartSetActive
    \/ StartSetStatus
    \/ StartReturn
    \/ StopCall
    \/ StopSetStatus
    \/ StopJoin

Worker ==
    \/ WorkerLoop
    \/ WorkerSleep
    \/ WorkerCheck
    \/ WorkerGrace
    \/ WorkerGraceStatus
    \/ WorkerGraceSend
    \/ WorkerProbe
    \/ WorkerResult
    \/ WorkerSend
    \/ WorkerTime

Next == Control \/ Worker

Spec == Init /\ [][Next]_vars

\* The same timer under the scheduling the threads get: a worker that can
\* run does run, and a control thread inside start or stop goes on to the
\* end of the call (whether start or stop is called at all is up to the
\* caller).  Checked for a probe that always fails and for a free probe with
\* a start period.
FairConfigs == {Config("false", 1, 0, 2), Config("any", 2, 4, 1)}

FairInit == Init /\ config \in FairConfigs

ControlGoesOn ==
    \/ StartCreate
    \/ StartSetActive
    \/ StartSetStatus
    \/ StartReturn
    \/ StopSetStatus
    \/ StopJoin

FairSpec ==
    FairInit /\ [][Next]_vars /\ WF_vars(Worker) /\ WF_vars(ControlGoesOn)

\* The parent stops reading the sync pipe: from now on every write to it
\* fails.
SyncPipeBreaks ==
    /\ ~sync_pipe_fails
    /\ sync_pipe_fails' = TRUE
    /\ UNCHANGED <<config, timer, worker, control, emitted, now, dropped>>
    /\ UNCHANGED <<registry, discovery, probe, wire>>

\* The worker of another timer, whose probe passed, writes its status update
\* to the shared sync pipe (tick 0: not sent by a tick of this timer).
OtherTimerSends ==
    /\ ~sync_pipe_fails
    /\ Len(SelectSeq(emitted, LAMBDA m : m.tick = 0)) < MaxOtherUpdates
    /\ emitted' = Append(emitted,
          [status |-> healthcheck_status_to_string(HEALTHCHECK_HEALTHY),
           exit_code |-> 0, tick |-> 0])
    /\ UNCHANGED <<config, timer, worker, control, now, pipe>>
    /\ UNCHANGED <<registry, discovery, probe, wire>>

PipeNext == Next \/ SyncPipeBreaks \/ OtherTimerSends

\* The timer with a sync pipe that may break at any moment and that the
\* workers of other timers write to as well, for a probe that always fails,
\* without and with a start period.
PipeConfigs == {Config("false", 1, 0, 2), Config("false", 2, 4, 1)}

PipeInit == Init /\ config \in PipeConfigs

PipeSpec == PipeInit /\ [][PipeNext]_vars

\* ---------------------------------------------- registry and lifecycle
\* The monitor's thread creates timers, inserts them into the registry,
\* starts, stops and frees them, and tears the registry down; each started
\* timer has its worker thread.  The worker's tick, modelled step by step
\* above, is here one step: the worker reads its timer's timer_active and
\* either goes on ticking or returns.
Returns(op, ok, key, value) ==
    result' = [op |-> op, ok |-> ok, key |-> key, value |-> value]

\* Some entry of the table holds the pointer to timer t.
Held(ht, t) ==
    /\ ht # NoTable
    /\ \E b \in DOMAIN ht[1].buckets :
          \E k \in 1..Len(ht[1].buckets[b]) : ht[1].buckets[b][k].value = t

\* The monitor registers a timer before it starts it.
MonitorMayStart(t) ==
    hash_table_get(active_healthcheck_timers, heap[t].container_id) = t

\* The registry owns the timers it holds: the monitor itself frees only a
\* timer that no entry holds.
MonitorMayFree(t) == ~Held(active_healthcheck_timers, t)

\* healthcheck_init (lines 153-165).
healthcheck_init ==
    /\ rpc = ControlIdle
    /\ IF active_healthcheck_timers # NoTable
       THEN /\ Returns("init", TRUE, <<>>, NoTimer)
            /\ UNCHANGED active_healthcheck_timers
       ELSE \/ /\ active_healthcheck_timers' = hash_table_new(HashTableSize)
               /\ Returns("init", TRUE, <<>>, NoTimer)
            \/ /\ Returns("init", FALSE, <<>>, NoTimer)
               /\ UNCHANGED active_healthcheck_timers
    /\ UNCHANGED <<heap, rpc, vars, discovery, probe, wire>>

\* healthcheck_timer_new (lines 206-260): a new timer object for a container
\* id, not active and without a thread, or NULL when memory runs out.
healthcheck_timer_new(t, id) ==
    /\ rpc = ControlIdle
    /\ heap[t].mem = "unallocated"
    /\ \A u \in 1..(t - 1) : heap[u].mem # "unallocated"
    /\ \/ /\ heap' = [heap EXCEPT ![t] = [mem |-> "live", container_id |-> id,
                                          timer_active |-> FALSE, thread |-> "none"]]
          /\ Returns("new", TRUE, id, t)
       \/ /\ Returns("new", FALSE, id, NoTimer)
          /\ UNCHANGED heap
    /\ UNCHANGED <<active_healthcheck_timers, rpc, vars, discovery, probe, wire>>

\* The monitor inserts a timer under its container id:
\* hash_table_put(active_healthcheck_timers, timer->container_id, timer).
Insert(t) ==
    /\ rpc = ControlIdle
    /\ heap[t].mem = "live"
    /\ \E mem_ok \in BOOLEAN :
          LET r == hash_table_put(active_healthcheck_timers, heap[t].container_id,
                                  t, mem_ok)
          IN /\ active_healthcheck_timers' = r.ht
             /\ Returns("put", r.ok, heap[t].container_id, t)
    /\ UNCHANGED <<heap, rpc, vars, discovery, probe, wire>>

\* healthcheck_timer_start up to pthread_create (lines 297-309), for a timer
\* with an enabled config and a test argv.
TimerStart(t) ==
    /\ rpc = ControlIdle
    /\ heap[t].mem = "live"
    /\ MonitorMayStart(t)
    /\ IF heap[t].timer_active
       THEN /\ Returns("start", FALSE, heap[t].container_id, t)
            /\ UNCHANGED <<heap, rpc>>
       ELSE \/ /\ Returns("start", FALSE, heap[t].container_id, t)
               /\ UNCHANGED <<heap, rpc>>
            \/ /\ heap' = [heap EXCEPT ![t].thread = "running"]
               /\ rpc' = [ControlIdle EXCEPT !.pc = "start_active", !.t = t]
               /\ UNCHANGED result
    /\ UNCHANGED <<active_healthcheck_timers, vars, discovery, probe, wire>>

\* healthcheck_timer_start, lines 311-314.
TimerSetActive ==
    /\ rpc.pc = "start_active"
    /\ heap' = [heap EXCEPT ![rpc.t].timer_active = TRUE]
    /\ rpc' = ControlIdle
    /\ Returns("start", TRUE, heap[rpc.t].container_id, rpc.t)
    /\ UNCHANGED <<active_healthcheck_timers, vars, discovery, probe, wire>>

\* healthcheck_timer_stop up to the join (lines 320-325), called by the
\* monitor.
TimerStop(t) ==
    /\ rpc = ControlIdle
    /\ heap[t].mem = "live"
    /\ IF ~heap[t].timer_active
       THEN /\ Returns("stop", TRUE, heap[t].container_id, t)
            /\ UNCHANGED <<heap, rpc>>
       ELSE /\ heap' = [heap EXCEPT ![t].timer_active = FALSE]
            /\ rpc' = [ControlIdle EXCEPT !.pc = "stop_join", !.t = t]
            /\ UNCHANGED result
    /\ UNCHANGED <<active_healthcheck_timers, vars, discovery, probe, wire>>

\* healthcheck_timer_stop, lines 328-333: the join returns once the worker
\* has returned; stop then returns to the monitor or to
\* healthcheck_timer_free.
TimerJoin ==
    /\ rpc.pc = "stop_join"
    /\ heap[rpc.t].thread = "exited"
    /\ heap' = [heap EXCEPT ![rpc.t].thread = "joined"]
    /\ IF rpc.via = "none"
       THEN /\ rpc' = ControlIdle
            /\ Returns("stop", TRUE, heap[rpc.t].container_id, rpc.t)
       ELSE /\ rpc' = [rpc EXCEPT !.pc = "free_release"]
            /\ UNCHANGED result
    /\ UNCHANGED <<active_healthcheck_timers, vars, discovery, probe, wire>>

\* The monitor calls healthcheck_timer_free on a timer.
FreeCall(t) ==
    /\ rpc = ControlIdle
    /\ heap[t].mem = "live"
    /\ MonitorMayFree(t)
    /\ rpc' = [ControlIdle EXCEPT !.pc = "free_check", !.t = t, !.via = "free"]
    /\ UNCHANGED <<active_healthcheck_timers, heap, result, vars, discovery, probe, wire>>

\* Mutant of FreeCheck: the timer is released without being stopped.
FreeCheckNoStop ==
    /\ rpc.pc = "free_check"
    /\ rpc' = [rpc EXCEPT !.pc = "free_release"]
    /\ UNCHANGED <<active_healthcheck_timers, heap, result, vars, discovery, probe, wire>>

\* healthcheck_timer_free, lines 269-272: an active timer is stopped first
\* (stop's lines 320-325; its join is TimerJoin).
FreeCheck ==
    /\ rpc.pc = "free_check"
    /\ IF heap[rpc.t].timer_active
       THEN /\ heap' = [heap EXCEPT ![rpc.t].timer_active = FALSE]
            /\ rpc' = [rpc EXCEPT !.pc = "stop_join"]
       ELSE /\ rpc' = [rpc EXCEPT !.pc = "free_release"]
            /\ UNCHANGED heap
    /\ UNCHANGED <<active_healthcheck_timers, result, vars, discovery, probe, wire>>

\* healthcheck_timer_free, lines 274-291: the object is cleared and freed.
FreeRelease ==
    /\ rpc.pc = "free_release"
    /\ heap' = [heap EXCEPT ![rpc.t] = [mem |-> "freed", container_id |-> <<>>,
                                          timer_active |-> FALSE,
                                          thread |-> heap[rpc.t].thread]]
    /\ IF rpc.via = "cleanup"
       THEN /\ rpc' = [rpc EXCEPT !.pc = "cleanup_clear"]
            /\ UNCHANGED result
       ELSE /\ rpc' = ControlIdle
            /\ Returns("free", TRUE, heap[rpc.t].container_id, rpc.t)
    /\ UNCHANGED <<active_healthcheck_timers, vars, discovery, probe, wire>>

\* healthcheck_cleanup, line 170: nothing to do without a table.
CleanupCall ==
    /\ rpc = ControlIdle
    /\ IF active_healthcheck_timers = NoTable
       THEN /\ Returns("cleanup", TRUE, <<>>, NoTimer)
            /\ UNCHANGED rpc
       ELSE /\ rpc' = [ControlIdle EXCEPT !.pc = "cleanup_scan", !.j = 1,
                                          !.via = "cleanup"]
            /\ UNCHANGED result
    /\ UNCHANGED <<active_healthcheck_timers, heap, vars, discovery, probe, wire>>

\* healthcheck_cleanup, lines 172-176 and 179-181: the walk over the
\* buckets and their chains; an entry with a value has its timer freed.
CleanupScan ==
    /\ rpc.pc = "cleanup_scan"
    /\ LET ht == active_healthcheck_timers[1]
           chain == ht.buckets[rpc.i]
       IN IF rpc.j > Len(chain)
          THEN IF rpc.i + 1 < ht.size
               THEN rpc' = [rpc EXCEPT !.i = rpc.i + 1, !.j = 1]
               ELSE rpc' = [rpc EXCEPT !.pc = "cleanup_drop"]
          ELSE IF chain[rpc.j].value # NoTimer
               THEN rpc' = [rpc EXCEPT !.pc = "free_check", !.t = chain[rpc.j].value]
               ELSE rpc' = [rpc EXCEPT !.j = rpc.j + 1]
    /\ UNCHANGED <<active_healthcheck_timers, heap, result, vars, discovery, probe, wire>>

\* healthcheck_cleanup, lines 177-179: entry->value = NULL, then the next
\* entry of the chain.
CleanupClear ==
    /\ rpc.pc = "cleanup_clear"
    /\ active_healthcheck_timers' =
          <<[active_healthcheck_timers[1] EXCEPT
                !.buckets[rpc.i][rpc.j].value = NoTimer]>>
    /\ rpc' = [rpc EXCEPT !.pc = "cleanup_scan", !.t = NoTimer, !.j = rpc.j + 1]
    /\ UNCHANGED <<heap, result, vars, discovery, probe, wire>>

\* healthcheck_cleanup, lines 184-185: hash_table_free and the global set
\* to NULL.
CleanupDrop ==
    /\ rpc.pc = "cleanup_drop"
    /\ active_healthcheck_timers' = NoTable
    /\ rpc' = ControlIdle
    /\ Returns("cleanup", TRUE, <<>>, NoTimer)
    /\ UNCHANGED <<heap, vars, discovery, probe, wire>>

\* healthcheck_timer_thread of timer t at its loop condition (lines 756-771):
\* it goes on while timer_active is set and returns when it is not.  A
\* worker whose timer has been freed reads freed memory, and may do either.
TimerThread(t) ==
    /\ heap[t].thread = "running"
    /\ IF heap[t].mem = "freed"
       THEN \E next \in {"running", "exited"} :
               heap' = [heap EXCEPT ![t].thread = next]
       ELSE IF heap[t].timer_active
            THEN UNCHANGED heap
            ELSE heap' = [heap EXCEPT ![t].thread = "exited"]
    /\ UNCHANGED <<active_healthcheck_timers, rpc, result, vars, discovery, probe, wire>>

RegistryNext ==
    \/ healthcheck_init
    \/ \E t \in Timers, id \in ContainerIds : healthcheck_timer_new(t, id)
    \/ \E t \in Timers : Insert(t)
    \/ \E t \in Timers : TimerStart(t)
    \/ TimerSetActive
    \/ \E t \in Timers : TimerStop(t)
    \/ TimerJoin
    \/ \E t \in Timers : FreeCall(t)
    \/ FreeCheck
    \/ FreeRelease
    \/ CleanupCall
    \/ CleanupScan
    \/ CleanupClear
    \/ CleanupDrop
    \/ \E t \in Timers : TimerThread(t)

\* The registry's lifecycle, with the timer modelled above left at rest.
RegistryInit == Init /\ config = Config("any", 1, 0, 0)

RegistrySpec == RegistryInit /\ [][RegistryNext]_registry

\* ------------------------------------------------------------ discovery
\* JSON values as json-c hands them out: json_object_object_get_ex failing
\* (absent), or a value of type int, double, string or array.
JAbsent == [type |-> "absent", n |-> 0, s |-> "", a |-> <<>>]
JInt(n) == [type |-> "int", n |-> n, s |-> "", a |-> <<>>]
JDouble == [type |-> "double", n |-> 0, s |-> "", a |-> <<>>]
JString(s) == [type |-> "string", n |-> 0, s |-> s, a |-> <<>>]
JArray(a) == [type |-> "array", n |-> 0, s |-> "", a |-> a]

\* The string of n copies of the character c.
RECURSIVE Repeat(_, _)
Repeat(c, n) ==
    IF n = 0 THEN ""
    ELSE IF n % 2 = 1 THEN c \o Repeat(c, n - 1)
    ELSE LET half == Repeat(c, n \div 2) IN half \o half

HEALTHCHECK_INTERVAL_MIN == 1
HEALTHCHECK_INTERVAL_MAX == 3600
HEALTHCHECK_TIMEOUT_MIN == 1
HEALTHCHECK_TIMEOUT_MAX == 300
HEALTHCHECK_START_PERIOD_MIN == 0
HEALTHCHECK_START_PERIOD_MAX == 3600
HEALTHCHECK_RETRIES_MIN == 0
HEALTHCHECK_RETRIES_MAX == 100
MAX_HEALTHCHECK_CMD_LEN == 4096

\* The "test" values of the annotations the calls are made with.
TestValues ==
    {JAbsent,
     JString("CMD"),
     JArray(<<>>),
     JArray(<<JString("CMD")>>),
     JArray(<<JString("CMD-SHELL")>>),
     JArray(<<JInt(7), JString("true")>>),
     JArray(<<JString("NONE"), JString("true")>>),
     JArray(<<JString("CMD"), JString("true")>>),
     JArray(<<JString("CMD"), JString("curl"), JString("-f"), JString("localhost")>>),
     JArray(<<JString("CMD"), JString("curl"), JInt(80)>>),
     JArray(<<JString("CMD-SHELL"), JInt(1)>>),
     JArray(<<JString("CMD-SHELL"), JString("")>>),
     JArray(<<JString("CMD-SHELL"), JString("x")>>),
     JArray(<<JString("CMD-SHELL"), JString("exit 1"), JString("extra")>>),
     JArray(<<JString("CMD-SHELL"), JString(Repeat("x", MAX_HEALTHCHECK_CMD_LEN))>>),
     JArray(<<JString("CMD-SHELL"), JString(Repeat("x", MAX_HEALTHCHECK_CMD_LEN + 1))>>)}

\* The numeric values: at and just outside each end of the range, absent,
\* and of another JSON type.
IntervalValues == {JAbsent, JString("30s"), JInt(0), JInt(1), JInt(3600), JInt(3601)}
TimeoutValues == {JAbsent, JDouble, JInt(0), JInt(1), JInt(300), JInt(301)}
StartPeriodValues == {JAbsent, JDouble, JInt(-1), JInt(0), JInt(3600), JInt(3601)}
RetriesJsonValues == {JAbsent, JString("3"), JInt(-1), JInt(0), JInt(100), JInt(101)}

\* The annotation string as json_tokener_parse sees it: the NULL pointer,
\* text that is not JSON, or an object with these members.
Document(kind, test, interval, timeout, start_period, retries) ==
    [json |-> kind, test |-> test, interval |-> interval, timeout |-> timeout,
     start_period |-> start_period, retries |-> retries]

Documents ==
    {Document(kind, JAbsent, JAbsent, JAbsent, JAbsent, JAbsent) :
        kind \in {"null", "malformed"}}
    \cup {Document("object", test, interval, timeout, start_period, retries) :
            test \in TestValues, interval \in IntervalValues,
            timeout \in TimeoutValues, start_period \in StartPeriodValues,
            retries \in RetriesJsonValues}

\* What the allocator does during a call: every allocation succeeds, or
\* malloc (line 472), calloc (566, 637) or strdup (586, 644-646) returns NULL.
Allocations == {"ok", "malloc_fails", "calloc_fails", "strdup_fails"}

\* What a store outside an allocation does: it lands in memory nobody uses,
\* or it overwrites what the heap keeps behind the allocation.
Overruns == {"harmless", "corrupts"}

\* An argv array of `slots` pointers (the count given to calloc) whose
\* strings are stored from index 0 and whose terminating NULL is stored at
\* index `terminator` (from 0).
Argv(argv, slots, terminator, overrun) ==
    [mem |-> IF terminator < slots \/ overrun = "harmless" THEN "live" ELSE "corrupt",
     argv |-> argv,
     slots |-> slots,
     terminator |-> terminator]

FreedTest == [mem |-> "freed", argv |-> <<>>]

\* Lines 536-671: the "test" member becomes config->test.  The result is
\* (whether parsing goes on, config->test).
ParseTest(test_array, mem, overrun) ==
    LET Fails(test) == [ok |-> FALSE, test |-> test]
        array_size == Len(test_array.a)
    IN IF test_array.type # "array" \/ array_size < 2 THEN Fails(NullTest)
       ELSE IF test_array.a[1].type # "string" THEN Fails(NullTest)
       ELSE IF test_array.a[1].s = "CMD"
       THEN IF mem = "calloc_fails" THEN Fails(NullTest)
            ELSE IF \E i \in 2..array_size : test_array.a[i].type # "string"
            THEN Fails(FreedTest)
            ELSE IF mem = "strdup_fails" THEN Fails(FreedTest)
            ELSE [ok |-> TRUE,
                  test |-> Argv([i \in 1..(array_size - 1) |-> test_array.a[i + 1].s],
                                array_size, array_size - 1, overrun)]
       ELSE IF test_array.a[1].s = "CMD-SHELL"
       THEN IF array_size # 2 THEN Fails(NullTest)
            ELSE IF test_array.a[2].type # "string" THEN Fails(NullTest)
            ELSE IF Len(test_array.a[2].s) = 0 THEN Fails(NullTest)
            ELSE IF Len(test_array.a[2].s) > MAX_HEALTHCHECK_CMD_LEN THEN Fails(NullTest)
            ELSE IF mem = "calloc_fails" THEN Fails(NullTest)
            ELSE IF mem = "strdup_fails" THEN Fails(FreedTest)
            ELSE [ok |-> TRUE,
                  test |-> Argv(<<"/bin/sh", "-c", test_array.a[2].s>>, 3, 3, overrun)]
       ELSE Fails(NullTest)

\* Mutant of IntInRange: the upper end of the range is not tested.
IntAtLeast(value, min, max) == value.type = "int" /\ value.n >= min

\* Lines 675-681 (and 691-697, 707-713, 723-729): the member is present, of
\* type json_type_int, and within the range.
IntInRange(value, min, max) == value.type = "int" /\ value.n >= min /\ value.n <= max

\* healthcheck_parse_oci_annotations: (return value, *config afterwards).
healthcheck_parse_oci_annotations(annotations_json, cfg, mem, overrun) ==
    LET Fails(c) == [ok |-> FALSE, config |-> c] IN
    IF annotations_json.json = "null" THEN Fails(cfg)
    ELSE IF annotations_json.json = "malformed" THEN Fails(cfg)
    ELSE
      LET test == ParseTest(annotations_json.test, mem, overrun)
          c0 == [enabled |-> TRUE, test |-> test.test, interval |-> 0, timeout |-> 0,
                 start_period |-> 0, retries |-> 0]
          c1 == [c0 EXCEPT !.interval = annotations_json.interval.n]
          c2 == [c1 EXCEPT !.timeout = annotations_json.timeout.n]
          c3 == [c2 EXCEPT !.start_period = annotations_json.start_period.n]
          c4 == [c3 EXCEPT !.retries = annotations_json.retries.n]
      IN IF ~test.ok THEN Fails(c0)
         ELSE IF ~IntInRange(annotations_json.interval, HEALTHCHECK_INTERVAL_MIN,
                             HEALTHCHECK_INTERVAL_MAX) THEN Fails(c0)
         ELSE IF ~IntInRange(annotations_json.timeout, HEALTHCHECK_TIMEOUT_MIN,
                             HEALTHCHECK_TIMEOUT_MAX) THEN Fails(c1)
         ELSE IF ~IntInRange(annotations_json.start_period, HEALTHCHECK_START_PERIOD_MIN,
                             HEALTHCHECK_START_PERIOD_MAX) THEN Fails(c2)
         ELSE IF ~IntInRange(annotations_json.retries, HEALTHCHECK_RETRIES_MIN,
                             HEALTHCHECK_RETRIES_MAX) THEN Fails(c3)
         ELSE [ok |-> TRUE, config |-> c4]

\* The bundle directory as healthcheck_discover_from_oci_config finds it:
\* the path argument, config.json, its "annotations" member and the
\* "io.podman.healthcheck" annotation with the document it holds.
Bundle(path, config_json, annotations, healthcheck, doc) ==
    [path |-> path, config_json |-> config_json, annotations |-> annotations,
     healthcheck |-> healthcheck, doc |-> doc]

NoDocument == Document("null", JAbsent, JAbsent, JAbsent, JAbsent, JAbsent)

\* No bundle: the annotation string is handed to the parser directly.
NoBundle == Bundle("none", "missing", "absent", "absent", NoDocument)

Bundles ==
    {Bundle("null", "missing", "absent", "absent", NoDocument)}
    \cup {Bundle("dir", config_json, "absent", "absent", NoDocument) :
            config_json \in {"missing", "unopenable", "short_read", "malformed"}}
    \cup {Bundle("dir", "object", annotations, "absent", NoDocument) :
            annotations \in {"absent", "string", "object"}}
    \cup {Bundle("dir", "object", "object", "int", NoDocument)}
    \cup {Bundle("dir", "object", "object", "string", doc) :
            doc \in Documents \ {NoDocument}}

\* healthcheck_discover_from_oci_config: (return value, *config afterwards).
healthcheck_discover_from_oci_config(bundle, cfg, mem, overrun) ==
    LET Fails == [ok |-> FALSE, config |-> cfg] IN
    IF bundle.path = "null" THEN Fails
    ELSE IF bundle.config_json = "missing" THEN Fails
    ELSE IF bundle.config_json = "unopenable" THEN Fails
    ELSE IF mem = "malloc_fails" THEN Fails
    ELSE IF bundle.config_json = "short_read" THEN Fails
    ELSE IF bundle.config_json = "malformed" THEN Fails
    ELSE IF bundle.annotations = "object" /\ bundle.healthcheck = "string"
    THEN healthcheck_parse_oci_annotations(bundle.doc, cfg, mem, overrun)
    ELSE Fails

\* A caller parses an annotation string into its zeroed config.
Parse ==
    /\ returned.op = "none"
    /\ \E doc \in Documents, mem \in Allocations \ {"malloc_fails"}, overrun \in Overruns :
          LET r == healthcheck_parse_oci_annotations(doc, parsed, mem, overrun)
          IN /\ call' = [op |-> "parse", bundle |-> NoBundle, doc |-> doc,
                          mem |-> mem, overrun |-> overrun]
             /\ parsed' = r.config
             /\ returned' = [op |-> "parse", ok |-> r.ok]
    /\ UNCHANGED <<vars, registry, probe, wire>>

\* The monitor discovers the healthcheck of a bundle into its zeroed config.
Discover ==
    /\ returned.op = "none"
    /\ \E bundle \in Bundles, mem \in Allocations, overrun \in Overruns :
          LET r == healthcheck_discover_from_oci_config(bundle, parsed, mem, overrun)
          IN /\ call' = [op |-> "discover", bundle |-> bundle, doc |-> bundle.doc,
                          mem |-> mem, overrun |-> overrun]
             /\ parsed' = r.config
             /\ returned' = [op |-> "discover", ok |-> r.ok]
    /\ UNCHANGED <<vars, registry, probe, wire>>

DiscoveryNext == Parse \/ Discover

\* Discovery alone, with the timer and the registry left at rest.
DiscoverySpec == RegistryInit /\ [][DiscoveryNext]_discovery

\* ---------------------------------------------------------- probe runner
\* The test argvs, container ids and runtime paths the runner is called with.
ProbeArgvs == {<<"true">>, <<"/bin/sh", "-c", "exit 1">>, <<"curl", "-f", "localhost">>}
ContainerIdStrings == {"a", Repeat("f", 64)}
RuntimePaths == {"/usr/bin/runc", "/usr/bin/crun"}

\* How a child that has replaced its image ends: it exits with a status, it
\* is killed by a signal, or waitpid reports neither.
Signaled(n) == [term |-> "signaled", code |-> n]
ChildEnds ==
    {[term |-> "exited", code |-> c] : c \in 0..255}
    \cup {Signaled(n) : n \in 1..64}
    \cup {[term |-> "other", code |-> 0]}

\* Line 364: the argv the child hands to execvp.
ChildArgv(test, container_id, runtime_path) == test

\* Lines 347-389 as waitpid's caller sees them: a child whose execvp fails
\* exits with 127 (line 366).
ChildRun(fork_ok, wait_ok, exec_ok, end) ==
    [fork_ok |-> fork_ok, wait_ok |-> wait_ok,
     term |-> IF exec_ok THEN end.term ELSE "exited",
     code |-> IF exec_ok THEN end.code ELSE 127]

\* One probe: healthcheck_execute_command for a config with a test argv.
Execute ==
    /\ probe.op = "none"
    /\ \E test \in ProbeArgvs, container_id \in ContainerIdStrings,
          runtime_path \in RuntimePaths, fork_ok \in BOOLEAN, wait_ok \in BOOLEAN,
          exec_ok \in BOOLEAN, end \in ChildEnds :
          probe' = [op |-> "execute", test |-> test, container_id |-> container_id,
                    runtime_path |-> runtime_path, fork_ok |-> fork_ok,
                    wait_ok |-> wait_ok, exec_ok |-> exec_ok, end |-> end,
                    argv |-> IF fork_ok
                             THEN ChildArgv(test, container_id, runtime_path)
                             ELSE <<>>,
                    result |-> healthcheck_execute_command(
                                   ChildRun(fork_ok, wait_ok, exec_ok, end))]
    /\ UNCHANGED <<vars, registry, discovery, wire>>

ProbeNext == Execute

\* The probe runner alone, with the timer and the registry left at rest.
ProbeSpec == RegistryInit /\ [][ProbeNext]_probe

\* -------------------------------------------------------- status reporter
\* The message type the sync pipe frames a status update with.
HEALTHCHECK_MSG_STATUS_UPDATE == -100

\* sizeof(json_msg).
JsonMsgSize == 1024

\* printf's %d and %ld: the decimal digits of an integer.
RECURSIVE Decimal(_)
Decimal(n) ==
    IF n < 0 THEN "-" \o Decimal(0 - n)
    ELSE IF n < 10 THEN <<"0", "1", "2", "3", "4", "5", "6", "7", "8", "9">>[n + 1]
    ELSE Decimal(n \div 10) \o Decimal(n % 10)

\* One member of the message: "key":"text" when quoted, "key":text otherwise.
Member(key, quoted, text) == [key |-> key, quoted |-> quoted, text |-> text]

\* The characters the members take in the message, with the braces and the
\* commas between the members.
RECURSIVE MembersLength(_)
MembersLength(members) ==
    IF members = <<>> THEN 0
    ELSE Len(Head(members).key) + 3 + Len(Head(members).text)
            + (IF Head(members).quoted THEN 2 ELSE 0)
            + MembersLength(Tail(members))

JsonLength(members) == 2 + MembersLength(members) + (Len(members) - 1)

\* Mutant of json_msg: the status is written before the container id.
json_msg_status_first(container_id, status_str, code, timestamp) ==
    LET members == <<Member("type", TRUE, "healthcheck_status"),
                     Member("status", TRUE, status_str),
                     Member("container_id", TRUE, container_id),
                     Member("exit_code", FALSE, Decimal(code)),
                     Member("timestamp", FALSE, Decimal(timestamp))>>
    IN [members |-> members, truncated |-> FALSE]

\* Lines 428-431: snprintf of the message into json_msg.  A message that
\* does not fit into the buffer is cut off and is no JSON object any more.
json_msg(container_id, status_str, code, timestamp) ==
    LET members == <<Member("type", TRUE, "healthcheck_status"),
                     Member("container_id", TRUE, container_id),
                     Member("status", TRUE, status_str),
                     Member("exit_code", FALSE, Decimal(code)),
                     Member("timestamp", FALSE, Decimal(timestamp))>>
    IN IF JsonLength(members) < JsonMsgSize
       THEN [members |-> members, truncated |-> FALSE]
       ELSE [members |-> <<>>, truncated |-> TRUE]

\* The exit codes and times (seconds since the epoch) updates are sent with.
ExitCodes == {-1, 0, 1, 127, 137, 255}
Timestamps == {0, 1793696759, 2147483647}

\* healthcheck_send_status_update as its caller and the sync pipe see it:
\* without a container id, or when strdup of the status string fails,
\* nothing is written and the call returns false.
SendStatusUpdate ==
    /\ wire.op = "none"
    /\ \E container_id \in ContainerIdStrings \cup {NULL}, st \in healthcheck_status_t,
          code \in ExitCodes, timestamp \in Timestamps, mem_ok \in BOOLEAN :
          LET sent == container_id # NULL /\ mem_ok
          IN wire' = [op |-> "send", container_id |-> container_id, status |-> st,
                      exit_code |-> code, time |-> timestamp,
                      written |-> sent,
                      tag |-> IF sent THEN HEALTHCHECK_MSG_STATUS_UPDATE ELSE 0,
                      msg |-> IF sent
                              THEN json_msg(container_id,
                                            healthcheck_status_to_string(st),
                                            code, timestamp)
                              ELSE [members |-> <<>>, truncated |-> FALSE],
                      ret |-> sent]
    /\ UNCHANGED <<vars, registry, discovery, probe>>

ReportNext == SendStatusUpdate

\* The status reporter alone, with the timer and the registry left at rest.
ReportSpec == RegistryInit /\ [][ReportNext]_wire

\* ------------------------------------------------------------- claims
\* The status updates sent on tick t, in order.
EmittedOn(t) == SelectSeq(emitted, LAMBDA m : m.tick = t)

\* Tick t has run to its end.
TickDone(t) ==
    \/ ticks > t
    \/ ticks = t /\ wpc \in {"loop", "sleep", "check", "exited", "joined"}

\* The worker is in the part of a tick that follows a probe whose runner
\* returned ok with a non-zero exit code.
AfterFailedProbe == success /\ exit_code # 0

\* The control thread is inside healthcheck_timer_start.
InStart == cpc \in {"start_create", "start_active", "start_status", "start_time"}

\* No worker has run while the start that created it was still going on.
NoStartRace == ~startRaced /\ ~InStart

\* A run without interference: the timer was started once, start returned
\* before the worker ran, and stop has not been called since.
CleanRun(c) ==
    config = c /\ starts = 1 /\ timer_active /\ cpc = "idle" /\ NoStartRace

\* C1: on a tick outside the start period whose probe exited non-zero,
\* consecutive_failures goes up by one; when the new value is >= retries the
\* status is set to unhealthy and the tick sends one update with the probe's
\* exit code; otherwise the status is left alone and the tick sends nothing.
C1_FailureStep ==
    (wpc = "result" /\ wpc' # wpc /\ AfterFailedProbe /\ start_period_remaining <= 0)
        => /\ consecutive_failures' = consecutive_failures + 1
           /\ IF consecutive_failures' >= config.retries
              THEN status' = HEALTHCHECK_UNHEALTHY /\ wpc' = "send"
              ELSE status' = status /\ wpc' = "time"
           /\ emitted' = emitted

C1_SendStep ==
    (wpc = "send" /\ wpc' # wpc /\ AfterFailedProbe)
        => /\ Len(emitted') = Len(emitted) + 1
           /\ emitted'[Len(emitted')].exit_code = exit_code
           /\ wpc' = "time"

C1_TickEnd ==
    (wpc = "time" /\ AfterFailedProbe)
        => IF consecutive_failures >= config.retries
           THEN /\ Len(EmittedOn(ticks)) = 1
                /\ EmittedOn(ticks)[1].exit_code = exit_code
           ELSE EmittedOn(ticks) = <<>>

C1_FailureOutsideStartPeriod ==
    [][C1_FailureStep /\ C1_SendStep]_vars /\ []C1_TickEnd

\* A silent failure below the retry limit followed by the failure that
\* reaches it: two failures with retries = 2, one update, sent on tick 2.
C1_Witness ==
    /\ config.retries = 2
    /\ wpc = "time" /\ AfterFailedProbe
    /\ ticks = 2 /\ consecutive_failures = 2
    /\ status = HEALTHCHECK_UNHEALTHY
    /\ Len(emitted) = 1 /\ emitted[1].tick = 2 /\ emitted[1].exit_code = 1

\* Exactly one update was sent on tick t, carrying status st and exit code c.
SentOnce(t, st, c) ==
    /\ Len(EmittedOn(t)) = 1
    /\ EmittedOn(t)[1].status = st
    /\ EmittedOn(t)[1].exit_code = c

\* C2, as stated: with start_period 0, interval 1, retries 2 and a probe
\* that always exits 1, ticks 1 and 2 send nothing and tick 3 sends
\* unhealthy with exit code 1.
C2_Original ==
    CleanRun(Config("false", 1, 0, 2))
        => /\ EmittedOn(1) = <<>>
           /\ EmittedOn(2) = <<>>
           /\ TickDone(3) => SentOnce(3, "unhealthy", 1)

\* C2, amended: with start_period 0, interval 1, retries 2 and a probe that
\* always exits 1, tick 1 sends nothing, tick 2 (the second consecutive
\* failure) sends unhealthy with exit code 1, and so does every later tick.
C2_RetryThresholdScenario ==
    CleanRun(Config("false", 1, 0, 2))
        => /\ EmittedOn(1) = <<>>
           /\ \A t \in 2..ticks : TickDone(t) => SentOnce(t, "unhealthy", 1)
           /\ \A t \in 2..ticks : Len(EmittedOn(t)) <= 1

C2_Witness ==
    /\ CleanRun(Config("false", 1, 0, 2))
    /\ TickDone(3)
    /\ Len(emitted) = 2
    /\ consecutive_failures = 3

\* C3, as stated: with start_period 4, interval 2 and a probe that always
\* exits 0, start sends nothing, tick 1 (remaining 2) sends starting, tick 2
\* (remaining 0) sends the first healthy and every later tick sends healthy.
C3_Original ==
    CleanRun(Config("true", 2, 4, 1))
        => /\ ticks = 0 => emitted = <<>>
           /\ TickDone(1) => SentOnce(1, "starting", 0)
           /\ \A t \in 2..ticks : TickDone(t) => SentOnce(t, "healthy", 0)

C5_ResultStep ==
    (wpc = "result" /\ wpc' # wpc /\ success /\ exit_code = 0)
        => /\ consecutive_failures' = 0
           /\ status' = HEALTHCHECK_HEALTHY
           /\ wpc' = "send"

C5_SendStep ==
    (wpc = "send" /\ wpc' # wpc /\ success /\ exit_code = 0 /\ NoStartRace)
        => /\ emitted' = Append(emitted,
                  [status |-> "healthy", exit_code |-> 0, tick |-> ticks])
           /\ wpc' = "time"

C5_Original == [][C5_ResultStep /\ C5_SendStep]_vars

\* C6: when the runner returns not ok (fork fails, waitpid fails, or the
\* child neither exited nor was signalled), the exit code is -1, the tick
\* adds one to consecutive_failures and sets status to unhealthy whatever
\* retries is, and it sends one update with exit code -1.
RunnerNotOk(run) == ~run.fork_ok \/ ~run.wait_ok \/ run.term \notin {"exited", "signaled"}

C6_Runner ==
    \A run \in ProbeRuns("any") :
        RunnerNotOk(run) =>
            healthcheck_execute_command(run) = [success |-> FALSE, exit_code |-> -1]

C6_ProbeStep ==
    (wpc = "probe" /\ wpc' # wpc /\ ~success') => exit_code' = -1

C6_ResultStep ==
    (wpc = "result" /\ wpc' # wpc /\ ~success)
        => /\ consecutive_failures' = consecutive_failures + 1
           /\ status' = HEALTHCHECK_UNHEALTHY
           /\ wpc' = "send"
           /\ emitted' = emitted

C6_SendStep ==
    (wpc = "send" /\ wpc' # wpc /\ ~success)
        => /\ Len(emitted') = Len(emitted) + 1
           /\ SubSeq(emitted', 1, Len(emitted)) = emitted
           /\ emitted'[Len(emitted')].exit_code = -1
           /\ emitted'[Len(emitted')].tick = ticks
           /\ wpc' = "loop"

C6_TickEnd ==
    (wpc = "send" /\ ~success) => EmittedOn(ticks) = <<>>

C6_RunnerNotOk ==
    [][C6_ProbeStep /\ C6_ResultStep /\ C6_SendStep]_vars /\ [](C6_Runner /\ C6_TickEnd)

\* The first failure of a timer with retries = 2: below the retry limit,
\* and yet unhealthy and about to be reported.
C6_Witness ==
    /\ config.retries = 2
    /\ wpc = "send" /\ ~success /\ exit_code = -1
    /\ consecutive_failures = 1
    /\ status = HEALTHCHECK_UNHEALTHY

\* C7, as stated: a timer created with start_period = 0 never sends an
\* update with status starting.
C7_Original ==
    config.start_period = 0
        => \A i \in 1..Len(emitted) : emitted[i].status # "starting"

\* C8, as stated: the statuses a timer sends are, with repeats collapsed, an
\* optional starting, then healthy and unhealthy in alternation, then at
\* most one none: starting never follows healthy or unhealthy, and nothing
\* follows none.  (Stated here for the timers none of whose workers ran
\* while its start was going on.)
C8_Original ==
    NoStartRace =>
        \A i, j \in 1..Len(emitted) :
            i < j =>
                /\ emitted[i].status \in {"healthy", "unhealthy"}
                       => emitted[j].status # "starting"
                /\ emitted[i].status = "none" => emitted[j].status = "none"

\* C9, as stated: when the status crosses to unhealthy, consecutive_failures
\* is at most retries + 1, also after stop followed by start.  (Stated here
\* for the timers none of whose workers ran while its start was going on,
\* and for the crossings made while no start or stop is going on.)
C9_Crossing ==
    (NoStartRace /\ cpc = "idle" /\ wpc = "result" /\ wpc' = "send"
     /\ status # HEALTHCHECK_UNHEALTHY /\ status' = HEALTHCHECK_UNHEALTHY)
        => consecutive_failures' <= config.retries + 1

C9_Original == [][C9_Crossing]_vars

\* C10: healthcheck_timer_start goes on only when the config is enabled, the
\* test argv is present and the timer is not active; a start that returns
\* false creates no worker and changes no field of the timer; a start that
\* returns true has created exactly one worker, set active and status
\* starting, and sent no update.
StartGoesOn == cpc = "idle" /\ cpc' = "start_create"

StartReturnsFalse ==
    \/ cpc = "idle" /\ cpc' = "idle" /\ ret' # ret
    \/ cpc = "start_create" /\ cpc' = "idle"

C10_Guard ==
    StartGoesOn => config.enabled /\ config.test # NULL /\ ~timer_active

C10_Rejected ==
    StartReturnsFalse
        => /\ ret' = "start_false"
           /\ UNCHANGED <<timer, worker, emitted, starts>>

C10_Worker ==
    /\ starts' # starts => cpc = "start_create" /\ cpc' = "start_active"
    /\ (cpc = "start_create" /\ cpc' = "start_active")
           => /\ starts' = starts + 1
              /\ wpc \in {"none", "joined"}
              /\ wpc' = "spawned"

C10_Fields ==
    /\ (cpc = "start_active" /\ cpc' = "start_status") => timer_active'
    /\ (cpc = "start_status" /\ cpc' = "start_time") => status' = HEALTHCHECK_STARTING
    /\ (cpc = "start_time" /\ cpc' = "idle") => ret' = "start_true" /\ timer_active'
    /\ ret' # ret /\ ret' = "start_true" => cpc = "start_time"

C10_NoUpdate ==
    cpc' # cpc => emitted' = emitted

C10_StartContract ==
    [][C10_Guard /\ C10_Rejected /\ C10_Worker /\ C10_Fields /\ C10_NoUpdate]_vars

\* A start rejected because the timer is active, after the start that made
\* it active.
C10_Witness ==
    /\ ret = "start_false"
    /\ cpc = "idle"
    /\ timer_active
    /\ starts = 1
    /\ wpc \notin {"none", "joined"}

\* C11, as stated: after healthcheck_timer_stop has returned, status is none
\* and active is false, however stop interleaved with the worker's tick.
\* (Stated here for the timers none of whose workers ran while its start
\* was going on.)
StopReturned == cpc = "idle" /\ wpc = "joined"

C11_Original ==
    (StopReturned /\ NoStartRace) => status = HEALTHCHECK_NONE /\ ~timer_active

\* C12: stop returns only once the worker has returned, and from then on
\* (until a later start) the worker runs no probe, sends no update and
\* changes no field of the timer.
C12_Return ==
    (cpc = "stop_join" /\ cpc' = "idle") => wpc = "exited"

C12_Quiet ==
    StopReturned => UNCHANGED <<timer, worker, emitted, now>>

C12_Joined ==
    (cpc = "idle" /\ ~timer_active /\ starts > 0) => wpc = "joined"

WorkerStep == cpc' = cpc /\ ret' = ret

\* C13, as stated: once active is false the worker changes none of status,
\* consecutive_failures, start_period_remaining and last_check_time.
C13_Original ==
    [][(~timer_active /\ NoStartRace /\ WorkerStep)
          => UNCHANGED <<status, consecutive_failures, start_period_remaining,
                         last_check_time>>]_vars

\* C14, as stated: from a start that returned true until stop is called,
\* the worker has not returned.  (The timer is active and the control thread
\* is in neither start nor stop exactly when the last call that went on was
\* a start that returned true.)
C14_Original ==
    (cpc = "idle" /\ timer_active) => wpc \notin {"none", "exited", "joined"}

\* C15, as stated: a timer started once, whose probe always exits non-zero
\* and which is not stopped, eventually sends an update with status
\* unhealthy.
UnhealthySent == \E i \in 1..Len(emitted) : emitted[i].status = "unhealthy"

C15_Original ==
    (cpc = "idle" /\ timer_active /\ starts = 1 /\ config.test = "false")
        ~> (UnhealthySent \/ ~timer_active)

\* C16: once stop has set active to false it returns: the worker begins no
\* further tick and no further sleep slice, ends the tick that is in flight
\* and returns, and the join returns.
C16_NoNewTick ==
    ~timer_active => ticks' = ticks /\ now' = now

C16_Observes ==
    (~timer_active /\ wpc \in {"spawned", "loop", "check"} /\ wpc' # wpc /\ WorkerStep)
        => wpc' = "exited"

InStop == cpc \in {"stop_status", "stop_join"}

C16_StopReturns ==
    /\ [][C16_NoNewTick /\ C16_Observes]_vars
    /\ (InStop ~> StopReturned)

\* Stop waits in the join while the probe that was in flight when it was
\* called has ended and its result is being handled.
C16_Witness ==
    /\ cpc = "stop_join"
    /\ wpc = "result"

\* C17: stop on a timer that is not active (never started, or stopped
\* already) returns at once: it joins no worker and changes no field, so a
\* second stop changes nothing.
C17_NoOp ==
    (cpc = "idle" /\ ~timer_active)
        => /\ ~InStop'
           /\ UNCHANGED <<timer, worker, emitted, now>>

C17_Enters ==
    (cpc = "idle" /\ InStop') => timer_active /\ ~timer_active'

C17_StopIdempotent == [][C17_NoOp /\ C17_Enters]_vars

\* A timer that was started and stopped, on which stop can be called again.
C17_Witness ==
    /\ StopReturned
    /\ ~timer_active
    /\ ret = "start_true"
    /\ starts = 1

\* A step in which the monitor's insertion returns.
InsertStep ==
    /\ rpc = ControlIdle
    /\ result'.op = "put"
    /\ result' # result \/ active_healthcheck_timers' # active_healthcheck_timers

\* C18, as stated: inserting a timer under a container id under which
\* another timer is registered returns an error, and the registry goes on
\* returning the timer registered before for that id.
C18_Duplicate ==
    LET held == hash_table_get(active_healthcheck_timers, result'.key)
    IN (InsertStep /\ held # NoTimer /\ held # result'.value)
          => /\ ~result'.ok
             /\ hash_table_get(active_healthcheck_timers', result'.key) = held

C18_Original == [][C18_Duplicate]_registry

\* C19: healthcheck_cleanup frees each timer the registry holds only after
\* the timer has been stopped and its worker joined, and drops the table
\* only after every entry's timer has been freed; no worker runs on a timer
\* that has been freed, and when cleanup returns there is no table.
C19_NoWorkerOnFreed ==
    \A t \in Timers : heap[t].mem = "freed" => heap[t].thread \in {"none", "joined"}

C19_FreeAfterJoin ==
    \A t \in Timers :
        (heap[t].mem = "live" /\ heap'[t].mem = "freed")
            => /\ ~heap[t].timer_active
               /\ heap[t].thread \in {"none", "joined"}

C19_FreesHeld ==
    (rpc.pc = "cleanup_scan" /\ rpc'.pc = "free_check")
        => /\ heap[rpc'.t].mem = "live"
           /\ active_healthcheck_timers[1].buckets[rpc.i][rpc.j].value = rpc'.t

\* During the walk every entry behind the cursor has had its timer freed
\* and its value cleared.
C19_Walk ==
    rpc.pc \in {"cleanup_scan", "cleanup_clear", "cleanup_drop"}
        => \A b \in DOMAIN active_healthcheck_timers[1].buckets :
              \A k \in 1..Len(active_healthcheck_timers[1].buckets[b]) :
                 (rpc.pc = "cleanup_drop" \/ b < rpc.i \/ (b = rpc.i /\ k < rpc.j))
                    => active_healthcheck_timers[1].buckets[b][k].value = NoTimer

C19_Cleared ==
    rpc.pc = "cleanup_clear" => heap[rpc.t].mem = "freed"

C19_Drop ==
    (rpc.pc = "cleanup_drop" /\ rpc'.pc # "cleanup_drop")
        => /\ active_healthcheck_timers' = NoTable
           /\ rpc' = ControlIdle
           /\ \A t \in Timers : ~Held(active_healthcheck_timers, t)

C19_TeardownJoinsBeforeFree ==
    /\ [][C19_FreeAfterJoin /\ C19_FreesHeld /\ C19_Drop]_registry
    /\ [](C19_NoWorkerOnFreed /\ C19_Walk /\ C19_Cleared)

\* Cleanup has returned after it stopped, joined and freed two timers that
\* were registered and running.
C19_Witness ==
    /\ rpc = ControlIdle
    /\ result.op = "cleanup"
    /\ active_healthcheck_timers = NoTable
    /\ \A t \in 1..2 : heap[t].mem = "freed" /\ heap[t].thread = "joined"

\* C20, as stated (between the monitor's calls): every timer that has been
\* started and not freed is held by the registry, and no entry of the
\* registry refers to a timer that has been freed.
Started(t) == heap[t].thread # "none"

C20_Original ==
    rpc = ControlIdle
        => \A t \in Timers :
              /\ (Started(t) /\ heap[t].mem = "live")
                     => Held(active_healthcheck_timers, t)
              /\ heap[t].mem = "freed" => ~Held(active_healthcheck_timers, t)

\* C21: a lookup by container id returns the timer that was put under
\* exactly that id and nothing for an id under which nothing was put, also
\* for ids that fall into one bucket; a put under one id changes the lookup of
\* no other id.  A lookup changes only for the key of a put that succeeded,
\* to the value put, or to NULL when healthcheck_cleanup clears the table.
C21_Put ==
    (InsertStep /\ result'.ok)
       => hash_table_get(active_healthcheck_timers', result'.key) = result'.value

C21_Others ==
    \A id \in ContainerIds :
       hash_table_get(active_healthcheck_timers', id)
             # hash_table_get(active_healthcheck_timers, id)
          => \/ InsertStep /\ result'.ok /\ id = result'.key
             \/ /\ rpc.via = "cleanup" \/ rpc'.via = "cleanup"
                /\ hash_table_get(active_healthcheck_timers', id) = NoTimer

C21_LookupByExactId == [][C21_Put /\ C21_Others]_registry

\* Two timers are registered under ids of one bucket, a third id was never
\* put, and the second put has just returned.
C21_Witness ==
    /\ BucketOf(<<97>>, HashTableSize) = BucketOf(<<113>>, HashTableSize)
    /\ result.op = "put" /\ result.ok
    /\ hash_table_get(active_healthcheck_timers, <<97>>) # NoTimer
    /\ hash_table_get(active_healthcheck_timers, <<113>>) # NoTimer
    /\ hash_table_get(active_healthcheck_timers, <<97>>)
          # hash_table_get(active_healthcheck_timers, <<113>>)
    /\ hash_table_get(active_healthcheck_timers, <<98>>) = NoTimer

\* A discovery call got as far as the members of the annotation object.
ReachedMembers ==
    /\ returned.op # "none"
    /\ call.doc.json = "object"
    /\ call.op = "discover" => call.mem # "malloc_fails"

\* C22: parsing succeeds only if interval is in [1, 3600], timeout in
\* [1, 300], start_period in [0, 3600] and retries in [0, 100], all present
\* and integral; on success each field of the config equals the value given
\* and enabled is true; with everything else valid, the values at the ends of
\* a range are accepted and those just outside are rejected.
C22_Fields ==
    <<[name |-> "interval", min |-> 1, max |-> 3600],
      [name |-> "timeout", min |-> 1, max |-> 300],
      [name |-> "start_period", min |-> 0, max |-> 3600],
      [name |-> "retries", min |-> 0, max |-> 100]>>

C22_Valid(f) ==
    /\ call.doc[f.name].type = "int"
    /\ call.doc[f.name].n \in f.min..f.max

C22_OnlyIf ==
    returned.ok
       => /\ \A k \in 1..4 :
                /\ C22_Valid(C22_Fields[k])
                /\ parsed[C22_Fields[k].name] = call.doc[C22_Fields[k].name].n
          /\ parsed.enabled

C22_If ==
    (/\ ReachedMembers
     /\ ParseTest(call.doc.test, call.mem, call.overrun).ok
     /\ \A k \in 1..4 : C22_Valid(C22_Fields[k]))
       => returned.ok

C23_Original ==
    returned.ok
       => LET test == call.doc.test
              n == Len(test.a)
          IN /\ test.type = "array" /\ n >= 2
             /\ test.a[1].type = "string"
             /\ \/ /\ test.a[1].s = "CMD"
                   /\ \A i \in 2..n : test.a[i].type = "string"
                   /\ parsed.test.mem = "live"
                   /\ parsed.test.argv = [i \in 1..(n - 1) |-> test.a[i + 1].s]
                \/ /\ test.a[1].s = "CMD-SHELL"
                   /\ n = 2
                   /\ test.a[2].type = "string"
                   /\ Len(test.a[2].s) \in 1..4096
                   /\ parsed.test.mem = "live"
                   /\ parsed.test.argv = <<"/bin/sh", "-c", test.a[2].s>>

\* C24, as stated: when parsing fails, for any reason, no partially built
\* config is visible: after the failed call the caller's config is not
\* enabled and holds no test argv produced by that parse.
C24_Original ==
    (returned.op # "none" /\ ~returned.ok)
       => /\ ~parsed.enabled
          /\ parsed.test = NullTest

\* The three failures of discovery that the caller is to tell apart.
DiscoveryFailure(bundle) ==
    IF bundle.path = "dir" /\ bundle.config_json = "missing"
    THEN "config.json missing"
    ELSE IF /\ bundle.path = "dir" /\ bundle.config_json = "object"
            /\ bundle.annotations # "object" \/ bundle.healthcheck = "absent"
    THEN "annotation missing"
    ELSE IF /\ bundle.path = "dir" /\ bundle.config_json = "object"
            /\ bundle.annotations = "object" /\ bundle.healthcheck = "string"
            /\ ~healthcheck_parse_oci_annotations(bundle.doc, ZeroConfig, "ok", "harmless").ok
    THEN "annotation invalid"
    ELSE "other"

\* What the caller has in hand after a discovery call.
Outcome(r) == <<r.ok, r.config>>

\* C25, as stated: discovery returns distinguishable outcomes for a missing
\* config.json, a missing annotation and an annotation that fails to parse:
\* what the caller has after one of them is never what it could have after
\* another.
C25_Original ==
    (/\ returned.op = "discover"
     /\ call.mem = "ok"
     /\ DiscoveryFailure(call.bundle) # "other")
       => \A other \in Bundles :
             (/\ DiscoveryFailure(other) # "other"
              /\ DiscoveryFailure(other) # DiscoveryFailure(call.bundle))
                => Outcome(healthcheck_discover_from_oci_config(
                              other, ZeroConfig, "ok", "harmless"))
                      # <<returned.ok, parsed>>

\* C26: the probe runner maps the child's end to (exit code, ok): a normal
\* exit with status s gives (s, ok), which includes 127 when replacing the
\* process image fails; death by signal N gives (128 + N, ok); any other wait
\* outcome, a failed fork and a failed wait give (-1, not ok).
C26_Seen == probe.op = "execute" /\ probe.fork_ok /\ probe.wait_ok

C26_ExitMapping ==
    probe.op = "execute"
       => /\ (C26_Seen /\ probe.exec_ok /\ probe.end.term = "exited")
                => probe.result = [success |-> TRUE, exit_code |-> probe.end.code]
          /\ (C26_Seen /\ ~probe.exec_ok)
                => probe.result = [success |-> TRUE, exit_code |-> 127]
          /\ (C26_Seen /\ probe.exec_ok /\ probe.end.term = "signaled")
                => probe.result = [success |-> TRUE, exit_code |-> 128 + probe.end.code]
          /\ (~C26_Seen \/ (probe.exec_ok /\ probe.end.term = "other"))
                => probe.result = [success |-> FALSE, exit_code |-> -1]

\* A probe killed by signal 9 was reported as (137, ok).
C26_Witness ==
    /\ C26_Seen /\ probe.exec_ok
    /\ probe.end = Signaled(9)
    /\ probe.result = [success |-> TRUE, exit_code |-> 137]

\* C27, as stated: every probe is executed through the container runtime's
\* exec subcommand: the child's argv is runtime_path, exec, container_id,
\* followed by the config's test argv.
C27_Original ==
    (probe.op = "execute" /\ probe.fork_ok)
       => probe.argv = <<probe.runtime_path, "exec", probe.container_id>> \o probe.test

\* C28: a failed write of a status update is swallowed: it does not end the
\* worker and changes neither status nor consecutive_failures, and later
\* ticks still probe and attempt to emit.  The step in which a write fails
\* changes no field of the timer and leaves the worker in its loop, and the
\* worker returns only from a test of timer_active that finds it false.
C28_FailedWrite ==
    dropped' # dropped
       => /\ sync_pipe_fails
          /\ wpc \in {"send", "grace_send"}
          /\ Len(dropped') = Len(dropped) + 1
          /\ dropped'[Len(dropped')].tick = ticks
          /\ wpc' \in {"loop", "time"}
          /\ UNCHANGED <<timer, emitted, control, ticks>>

C28_WorkerReturns ==
    (wpc' = "exited" /\ wpc # "exited")
       => (~timer_active /\ wpc \notin {"send", "grace_send"})

C28_WriteFailureSwallowed == [][C28_FailedWrite /\ C28_WorkerReturns]_vars

\* After an update was written, the writes of two later ticks failed: the
\* tick after the first failure probed and tried to send its update.
C28_Witness ==
    /\ Len(emitted) >= 1
    /\ Len(dropped) = 2
    /\ dropped[1].tick > emitted[Len(emitted)].tick
    /\ dropped[2].tick > dropped[1].tick
    /\ dropped[2].exit_code = 1

\* The updates on the sync pipe that this timer's worker wrote.
Own(seq) == SelectSeq(seq, LAMBDA m : m.tick > 0)

\* C29: within one timer, status updates are written in exactly the order
\* its state machine produced them, for any interleaving with other timers'
\* workers and with start and stop calls.  The timer's updates on the pipe
\* grow only at their end, by the update of the tick the worker is in, sent
\* from that tick's send step with the tick's exit code; so they are there in
\* the order of the ticks, at most one for a tick.
C29_Appends ==
    \/ Own(emitted') = Own(emitted)
    \/ /\ wpc \in {"send", "grace_send"}
       /\ ~sync_pipe_fails
       /\ Len(emitted') = Len(emitted) + 1
       /\ Own(emitted') = Append(Own(emitted), emitted'[Len(emitted')])
       /\ emitted'[Len(emitted')].tick = ticks
       /\ emitted'[Len(emitted')].exit_code = IF wpc = "send" THEN exit_code ELSE 0

C29_InTickOrder ==
    \A i, j \in 1..Len(Own(emitted)) :
       i < j => Own(emitted)[i].tick < Own(emitted)[j].tick

C29_UpdatesInOrder == [][C29_Appends]_vars /\ []C29_InTickOrder

\* The timer wrote the updates of ticks 1 and 2 with an update of another
\* timer between them, over a stop and a second start.
C29_Witness ==
    /\ Len(emitted) = 3
    /\ emitted[1].tick = 1 /\ emitted[2].tick = 0 /\ emitted[3].tick = 2
    /\ starts = 2

\* C30: every emitted status update has exactly the five fields type,
\* container_id, status, exit_code and timestamp, in that order, with type
\* healthcheck_status and status one of none, starting, healthy and unhealthy,
\* and is written under the framing tag of a healthcheck status update.
C30_Keys(members) == [i \in 1..Len(members) |-> members[i].key]

C31_Original ==
    (timer_active /\ cpc = "idle" /\ NoStartRace)
        => /\ start_period_remaining > 0 => status = HEALTHCHECK_STARTING
           /\ start_period_remaining <= 0
                 => status \in {HEALTHCHECK_HEALTHY, HEALTHCHECK_UNHEALTHY}

\* C32, as stated: start_period_remaining starts at the config's
\* start_period, never increases, goes down by the interval on each tick
\* while it is positive, the decrement being floored at 0, and is never
\* negative.
C32_Floored(n) == IF n < 0 THEN 0 ELSE n

C32_Step ==
    /\ start_period_remaining' <= start_period_remaining
    /\ (wpc = "grace" /\ wpc' # wpc /\ start_period_remaining > 0)
          => start_period_remaining'
                = C32_Floored(start_period_remaining - config.interval)
    /\ (wpc = "grace" /\ wpc' # wpc /\ start_period_remaining <= 0)
          => start_period_remaining' = start_period_remaining

\* C32, as stated: the initial value, every step, and no negative value.
C32_Original ==
    /\ start_period_remaining = config.start_period
    /\ [][C32_Step]_vars
    /\ [](start_period_remaining >= 0)

\* C33: on a tick whose start_period_remaining is still above 0 after the
\* decrement no probe runs, consecutive_failures is left alone, and an update
\* (starting) is sent only when status was not starting already; a probe runs
\* only on ticks whose start_period_remaining is not positive after the
\* decrement.
C33_InGrace == wpc \in {"grace_status", "grace_send"}

C33_Probing == wpc \in {"probe", "result", "send", "time"}

C33_Decrement ==
    (wpc = "grace" /\ wpc' # wpc)
        => /\ wpc' = IF start_period_remaining' > 0 THEN "grace_status" ELSE "probe"
           /\ consecutive_failures' = consecutive_failures
           /\ emitted' = emitted

C33_StatusStep ==
    (wpc = "grace_status" /\ wpc' # wpc)
        => /\ consecutive_failures' = consecutive_failures
           /\ emitted' = emitted
           /\ IF status # HEALTHCHECK_STARTING
              THEN status' = HEALTHCHECK_STARTING /\ wpc' = "grace_send"
              ELSE status' = status /\ wpc' = "loop"

C33_SendStep ==
    (wpc = "grace_send" /\ wpc' # wpc)
        => /\ consecutive_failures' = consecutive_failures
           /\ Len(emitted') = Len(emitted) + 1
           /\ emitted'[Len(emitted')].tick = ticks
           /\ emitted'[Len(emitted')].exit_code = 0
           /\ (timer_active /\ cpc = "idle")
                 => emitted'[Len(emitted')].status = "starting"
           /\ wpc' = "loop"

\* C33: the three steps of a tick inside the start period, and where the
\* worker can be while start_period_remaining is above 0 and while it is not.
C33_GraceTick ==
    /\ [][C33_Decrement /\ C33_StatusStep /\ C33_SendStep]_vars
    /\ [](C33_InGrace => start_period_remaining > 0)
    /\ [](C33_Probing => start_period_remaining <= 0)

\* A tick inside the start period that neither probed nor sent (status was
\* starting already), followed by the tick that ran the first probe.
C33_Witness ==
    /\ CleanRun(Config("any", 2, 4, 1))
    /\ ticks = 2 /\ wpc = "result"
    /\ start_period_remaining = 0
    /\ consecutive_failures = 0
    /\ emitted = <<>>

\* C34, as stated: last_check_time is updated at the end of every tick that
\* ran a probe, whatever its outcome: a probe that passed, a counted failure,
\* a silent failure below the retry limit, or a runner that returned not ok.
C34_Original ==
    [][(C33_Probing /\ wpc' = "loop") => last_check_time' = now]_vars

\* C35: each tick emits at most one status update, also when the tick
\* changes both the failure counter and the status.
C35_OneUpdatePerTick ==
    \A t \in 0..ticks : Len(EmittedOn(t)) <= 1

\* A tick that raised consecutive_failures and turned the status from
\* starting to unhealthy, and sent one update.
C35_Witness ==
    /\ CleanRun(Config("any", 1, 0, 0))
    /\ ticks = 1 /\ wpc = "time"
    /\ consecutive_failures = 1
    /\ status = HEALTHCHECK_UNHEALTHY
    /\ Len(emitted) = 1 /\ emitted[1].tick = 1

\* C36, as stated: with retries = 0 the first non-zero probe exit outside
\* the start period sets status to unhealthy and sends an unhealthy update on
\* that same tick, so that the timer goes from starting to unhealthy in one
\* probing tick.  (Stated here for the workers that did not run while their
\* start was going on.)
C36_ResultStep ==
    (/\ wpc = "result" /\ wpc' # wpc
     /\ config.retries = 0
     /\ AfterFailedProbe /\ start_period_remaining <= 0)
        => /\ status' = HEALTHCHECK_UNHEALTHY
           /\ wpc' = "send"

C36_SendStep ==
    (/\ wpc = "send" /\ wpc' # wpc
     /\ config.retries = 0
     /\ AfterFailedProbe /\ start_period_remaining <= 0)
        => /\ Len(emitted') = Len(emitted) + 1
           /\ emitted'[Len(emitted')] =
                 [status |-> "unhealthy", exit_code |-> exit_code, tick |-> ticks]

\* C36, as stated: both steps, on every tick of a timer with retries = 0.
C36_Original == [][NoStartRace => (C36_ResultStep /\ C36_SendStep)]_vars

\* C37, as stated: building the probe argv during parsing never writes
\* outside the allocated array, and the argv is NULL-terminated inside that
\* allocation, for CMD (the n - 1 strings after the tag) and for CMD-SHELL
\* (three strings).
C37_Original ==
    returned.ok
       => LET test == parsed.test
          IN /\ Len(test.argv) <= test.slots
             /\ test.terminator = Len(test.argv)
             /\ test.terminator < test.slots

\* The worker's position within one pass of its loop, from the sleep that
\* begins it to the return of the thread.
C38_Position(pc) ==
    CASE pc = "sleep" -> 1
      [] pc = "check" -> 2
      [] pc = "grace" -> 3
      [] pc = "grace_status" -> 4
      [] pc = "grace_send" -> 5
      [] pc = "probe" -> 6
      [] pc = "result" -> 7
      [] pc = "send" -> 8
      [] pc = "time" -> 9
      [] pc \in {"spawned", "loop"} -> 10
      [] pc = "exited" -> 11
      [] OTHER -> 12

\* While stop is under way no tick begins, the worker only moves forward
\* through the pass it is in, and an update it sends is the first of its tick.
C38_WorkerAfterStop ==
    InStop
        => /\ ticks' = ticks
           /\ wpc' # wpc => C38_Position(wpc') > C38_Position(wpc)
           /\ emitted' # emitted
                 => /\ Len(emitted') = Len(emitted) + 1
                    /\ emitted'[Len(emitted')].tick = ticks
                    /\ EmittedOn(ticks) = <<>>

\* C38: after stop has set timer_active to false, the worker starts at most
\* one further probe and emits at most one further status update before it
\* exits: it finishes the tick it is in, if any, and begins no other.
C38_AtMostOneTickAfterStop ==
    /\ [][C38_WorkerAfterStop]_vars
    /\ [](InStop => ~timer_active)

\* The worker was in a tick when stop stored timer_active = false and
\* HEALTHCHECK_NONE; it went on to send that tick's update, which carries the
\* status stop stored, and then returned.
C38_Witness ==
    /\ cpc = "stop_join" /\ wpc = "exited"
    /\ ticks = 1
    /\ Len(emitted) = 1
    /\ emitted[1].status = "none" /\ emitted[1].tick = 1

\* A step of healthcheck_timer_start.
C39_StartStep == cpc' # cpc /\ (StartGoesOn \/ InStart)

\* A step in which the worker does not move: a step of start or stop
\* (thread creation and join included) or a slice of the worker's sleep.
C39_WorkerAtRest == wpc' = wpc \/ wpc' \in {"spawned", "joined"}

\* C39: starting a timer again after stop does not reset consecutive_failures
\* or start_period_remaining: start changes only timer_active, status (to
\* starting), last_check_time and the worker, and the new worker goes on from
\* the counter values the run before left.
C39_StartKeepsCounters ==
    /\ [][C39_StartStep
            => /\ consecutive_failures' = consecutive_failures
               /\ start_period_remaining' = start_period_remaining
               /\ config' = config
               /\ emitted' = emitted
               /\ status' \in {status, HEALTHCHECK_STARTING}
               /\ timer_active' \in {timer_active, TRUE}]_vars
    /\ [][C39_WorkerAtRest
            => /\ consecutive_failures' = consecutive_failures
               /\ start_period_remaining' = start_period_remaining]_vars

\* A timer started for the second time after two failed probes: the new
\* worker has not run yet and the failures of the first run are still counted.
C39_Witness ==
    /\ config = Config("any", 1, 0, 2)
    /\ starts = 2 /\ cpc = "idle" /\ ret = "start_true"
    /\ timer_active /\ wpc = "spawned"
    /\ status = HEALTHCHECK_STARTING
    /\ consecutive_failures = 2

\* C40, as stated: once healthcheck_cleanup has returned, no worker of any
\* timer that was ever put into the registry is still running, a timer whose
\* entry was replaced by a later put under the same id included.  (A timer
\* is started only while the registry holds it.)
C40_Original ==
    (rpc = ControlIdle /\ result.op = "cleanup" /\ active_healthcheck_timers = NoTable)
        => \A t \in Timers : heap[t].thread # "running"

====
